---- MODULE Spec2Model ----
(***************************************************************************)
(* LAVA entropy oracle: the tick orchestrator (main / runTick), the        *)
(* entropy deriver (computeEntropy), the snapshot fetcher (fetchSnapshot)  *)
(* and the commit sender (sendCommit / sendWithRetry).                     *)
(*                                                                         *)
(* Text is modelled as a sequence of character tokens.  A SHA3-256 digest  *)
(* is one token that names its preimage, so the hash is collision-free.    *)
(***************************************************************************)
EXTENDS Integers, Sequences, FiniteSets, TLC

\* ---------------------------------------------------------------- bounds
MaxTicks == 2          \* ticks the main loop may start in a run
MaxIds == 2            \* rows the id table may hold
MaxRetriesOpt == 6     \* largest maxRetries option of a direct sendWithRetry call
MaxAccounts == 3       \* accounts a direct fetchSnapshot call is given
MaxStates == 2         \* account states a direct computeEntropy call is given

\* ------------------------------------------------------ program constants
DefaultMaxRetries == 5
DefaultBaseDelayMs == 800
MinIntervalMs == 1000
DefaultIntervalMs == 5000

\* ------------------------------------------------------------ text helpers
\* an optional value: None is null/undefined, Some(x) is the value x
None == <<>>
Some(x) == <<x>>

RECURSIVE Flat(_)
Flat(s) ==
    IF s = <<>> THEN ""
    ELSE IF Len(s) = 1 THEN s[1]
    ELSE LET h == Len(s) \div 2
         IN  Flat(SubSeq(s, 1, h)) \o Flat(SubSeq(s, h + 1, Len(s)))

RECURSIVE JoinStr(_, _)
JoinStr(parts, sep) ==
    IF parts = <<>> THEN <<>>
    ELSE IF Len(parts) = 1 THEN parts[1]
    ELSE parts[1] \o <<sep>> \o JoinStr(Tail(parts), sep)

Digit(d) == CASE d = 0 -> "0" [] d = 1 -> "1" [] d = 2 -> "2" [] d = 3 -> "3"
              [] d = 4 -> "4" [] d = 5 -> "5" [] d = 6 -> "6" [] d = 7 -> "7"
              [] d = 8 -> "8" [] d = 9 -> "9"

RECURSIVE DecStr(_)
DecStr(n) == IF n < 10 THEN <<Digit(n)>> ELSE DecStr(n \div 10) \o <<Digit(n % 10)>>

CharCode(c) == CASE c = "|" -> 124 [] c = "a" -> 97 [] c = "b" -> 98
                 [] c = "A" -> 65 [] c = "B" -> 66 [] OTHER -> 0

RECURSIVE CodeUnitLess(_, _)
CodeUnitLess(s, t) ==
    IF t = <<>> THEN FALSE
    ELSE IF s = <<>> THEN TRUE
    ELSE IF CharCode(Head(s)) # CharCode(Head(t)) THEN CharCode(Head(s)) < CharCode(Head(t))
    ELSE CodeUnitLess(Tail(s), Tail(t))

\* mutant: the array is reversed, not sorted
ArraySort_Reverse(a) == [i \in 1..Len(a) |-> a[Len(a) + 1 - i]]

ArraySort(a) == SortSeq(a, CodeUnitLess)

Pow2(n) == 2 ^ n

\* ------------------------------------------------------------- entropy.ts
sha3_256(input) == <<"sha3(" \o Flat(input) \o ")">>

Quote(s) == <<"\"">> \o s \o <<"\"">>

KeyOrder == <<"amount", "decimals", "error", "mint", "owner", "program",
              "raw_data_hash", "token_account_pubkey">>

KeyRank(k) == CHOOSE i \in 1..Len(KeyOrder) : KeyOrder[i] = k

KeyLess(p, q) == KeyRank(p[1]) < KeyRank(q[1])

\* a property is <<key, type, text>>; an object is the sequence of its
\* properties in insertion order
StringifyValue(p) ==
    CASE p[2] = "null" -> <<"null">>
      [] p[2] = "number" -> p[3]
      [] OTHER -> Quote(p[3])

StringifyPair(p) == Quote(<<p[1]>>) \o <<":">> \o StringifyValue(p)

StringifyObject(obj) ==
    LET keys == SortSeq(obj, KeyLess)
        pairs == [i \in 1..Len(keys) |-> StringifyPair(keys[i])]
    IN  <<"{">> \o JoinStr(pairs, ",") \o <<"}">>

stableStringify(arr) ==
    LET items == [i \in 1..Len(arr) |-> StringifyObject(arr[i])]
    IN  <<"[">> \o JoinStr(items, ",") \o <<"]">>

PubkeyOf(state) ==
    LET i == CHOOSE j \in 1..Len(state) : state[j][1] = "token_account_pubkey"
    IN  state[i][3]

\* mutant: the account states are left in the order given
LocaleLess_Unordered(a, b) == FALSE

LocaleLess(a, b) == CodeUnitLess(PubkeyOf(a), PubkeyOf(b))

\* mutant: the id list is committed unhashed
computeEntropy_RawDocs(snapshot, documentIds) ==
    LET sorted == SortSeq(snapshot.token_states, LocaleLess)
        canonical_tokens_json == stableStringify(sorted)
        tokens_state_hash == sha3_256(canonical_tokens_json)
        docs_canonical == JoinStr(ArraySort(documentIds), "|")
        docs_hash == docs_canonical
        combined == tokens_state_hash \o <<"|">> \o docs_hash \o <<"|">>
                    \o DecStr(snapshot.slot) \o <<"|">> \o snapshot.blockhash
    IN  [tokens_state_hash |-> tokens_state_hash,
         docs_hash |-> docs_hash,
         entropy_seed |-> sha3_256(combined),
         canonical_tokens_json |-> canonical_tokens_json,
         doc_count |-> Len(documentIds)]

computeEntropy(snapshot, documentIds) ==
    LET sorted == SortSeq(snapshot.token_states, LocaleLess)
        canonical_tokens_json == stableStringify(sorted)
        tokens_state_hash == sha3_256(canonical_tokens_json)
        docs_canonical == JoinStr(ArraySort(documentIds), "|")
        docs_hash == sha3_256(docs_canonical)
        combined == tokens_state_hash \o <<"|">> \o docs_hash \o <<"|">>
                    \o DecStr(snapshot.slot) \o <<"|">> \o snapshot.blockhash
    IN  [tokens_state_hash |-> tokens_state_hash,
         docs_hash |-> docs_hash,
         entropy_seed |-> sha3_256(combined),
         canonical_tokens_json |-> canonical_tokens_json,
         doc_count |-> Len(documentIds)]

isTokenStateFallback(state) == \E j \in 1..Len(state) : state[j][1] = "raw_data_hash"

\* ---------------------------------------------------- snapshot.ts (part_006)
AccountKinds == {"token", "bare", "absent", "raw", "noparsed", "noinfo", "fault"}

\* mutant: the fallback drops the reason
fallback_NoReason(pubkeyStr, rawBytes, reason) ==
    << <<"token_account_pubkey", "string", pubkeyStr>>,
       <<"raw_data_hash", "string", sha3_256(rawBytes)>>,
       <<"error", "string", <<>> >> >>

fallback(pubkeyStr, rawBytes, reason) ==
    << <<"token_account_pubkey", "string", pubkeyStr>>,
       <<"raw_data_hash", "string", sha3_256(rawBytes)>>,
       <<"error", "string", reason>> >>

fetchTokenState(kind, pubkeyStr) ==
    CASE kind = "absent" -> fallback(pubkeyStr, <<>>, <<"Account not found on-chain">>)
      [] kind = "raw" -> fallback(pubkeyStr, <<"r", "a", "w">>,
                                  <<"Account data is not parsed (not an SPL token account)">>)
      [] kind = "noparsed" -> fallback(pubkeyStr, <<>>, <<"No parsed field in account data">>)
      [] kind = "noinfo" -> fallback(pubkeyStr, <<>>,
                                     <<"No info field in parsed account data">>)
      [] kind = "fault" -> fallback(pubkeyStr, <<>>, <<"RPC error: ", "Error: timeout">>)
      [] kind = "bare" -> << <<"token_account_pubkey", "string", pubkeyStr>>,
                             <<"owner", "string", <<"o">> >>,
                             <<"mint", "string", <<"m">> >>,
                             <<"amount", "string", <<"7">> >>,
                             <<"decimals", "null", <<>> >>,
                             <<"program", "string", <<"spl-token">> >> >>
      [] OTHER -> << <<"token_account_pubkey", "string", pubkeyStr>>,
                     <<"owner", "string", <<"o">> >>,
                     <<"mint", "string", <<"m">> >>,
                     <<"amount", "string", <<"1", "0", "0">> >>,
                     <<"decimals", "number", <<"6">> >>,
                     <<"program", "string", <<"spl-token">> >> >>

BlockhashAt(slot) == <<"h">> \o DecStr(slot)

\* ------------------------------------------------------ solana.ts: faults
TransientSignatures == {"blockhash not found", "timeout", "502", "503", "429",
                        "econnreset", "enotfound", "network", "too many requests"}

ToLowerCase(w) ==
    CASE w = "ECONNRESET" -> "econnreset"
      [] w = "Too Many Requests" -> "too many requests"
      [] w = "Blockhash not found" -> "blockhash not found"
      [] OTHER -> w

ErrorMessages == { <<"Error: ", "ECONNRESET">>,
                   <<"Error: ", "429", " ", "Too Many Requests">>,
                   <<"SendTransactionError: ", "custom program error">> }

isTransientError(err) ==
    \E i \in 1..Len(err) : ToLowerCase(err[i]) \in TransientSignatures

\* ------------------------------------------------------------------ state
VARIABLES
    \* process environment and external collaborators, fixed for a run
    dryRun,          \* DRY_RUN
    intervalMs,      \* parseInt(ENTROPY_INTERVAL_MS); NaN when unparseable
    storeRows,       \* ids of the external table, in store order
    ledger,          \* what a read of each tracked account yields
    \* main()
    mainPc, running, tokenPubkeys, log,
    \* the wall clock and the ledger's slot
    now, chainSlot,
    \* runTick() and the sendCommit() it awaits
    tpc, docResult, snapshot, entropy, ts, signature, tx,
    \* sendWithRetry()
    spc, maxRetries, baseDelay, attempt, lastErr, sendResult,
    \* history (not program state)
    tickNo,          \* ticks started so far
    inFlight,        \* ticks started and not yet settled
    tickHist,        \* per settled tick: how it ended
    logTick,         \* per log line: the tick that wrote it
    logCommit,       \* per log line: how that tick's commit stage ended
    idFetchFailed,   \* this tick's id fetch raised
    commitOutcome,   \* this tick's commit stage: none, skipped, failed, confirmed
    confirmedSig,    \* signature the ledger confirmed for this tick's submission
    appended,        \* log lines this tick has appended
    signalInTick,    \* a stop signal arrived while this tick was in flight
    sendAttempts,    \* submissions made by this sendWithRetry call
    slept,           \* backoff delays slept by this sendWithRetry call
    sawNonTransient, \* an attempt of this call failed with a non-transient fault
    call             \* a direct call of one exported function: arguments and results

envVars == <<dryRun, intervalMs, storeRows, ledger, call>>
mainVars == <<mainPc, running, tokenPubkeys, log, now, chainSlot>>
tickVars == <<tpc, docResult, snapshot, entropy, ts, signature, tx>>
sendVars == <<spc, maxRetries, baseDelay, attempt, lastErr, sendResult>>
sendHist == <<sendAttempts, slept, sawNonTransient>>
tickGhost == <<idFetchFailed, commitOutcome, confirmedSig, appended, signalInTick>>
histVars == <<tickNo, inFlight, tickHist, logTick, logCommit>>
vars == <<envVars, mainVars, tickVars, sendVars, sendHist, tickGhost, histVars>>

NaN == -1

IdPool == { <<"a">>, <<"b">> }

RowLists == UNION { [1..n -> IdPool] : n \in 0..MaxIds }

TrackedPubkeys == << <<"B">>, <<"A">> >>

\* what the reads of the tracked accounts (in TrackedPubkeys order) may yield
LedgerStates == { <<"token", "token">>, <<"absent", "token">>,
                  <<"token", "raw">>, <<"fault", "absent">> }

\* no direct call is being made
NoCall == [op |-> "none"]

LoopPcs == {"loopTest", "inTick", "afterTick", "sleeping"}

\* the locals of runTick / sendCommit / sendWithRetry when no call is active
TickIdle ==
    /\ tpc = "idle" /\ docResult = None /\ snapshot = None /\ entropy = None
    /\ ts = None /\ signature = None /\ tx = None
    /\ idFetchFailed = FALSE /\ commitOutcome = "none" /\ confirmedSig = None
    /\ appended = 0 /\ signalInTick = FALSE

SendIdle ==
    /\ spc = "idle" /\ maxRetries = 0 /\ baseDelay = 0 /\ attempt = 0
    /\ lastErr = None /\ sendResult = None
    /\ sendAttempts = 0 /\ slept = <<>> /\ sawNonTransient = FALSE

Init ==
    /\ dryRun \in BOOLEAN
    /\ intervalMs \in {NaN, MinIntervalMs - 1, DefaultIntervalMs}
    /\ storeRows \in RowLists
    /\ ledger \in LedgerStates
    /\ call = NoCall
    /\ mainPc = "checkInterval" /\ running = FALSE /\ tokenPubkeys = <<>> /\ log = <<>>
    /\ now = 0 /\ chainSlot = 1
    /\ TickIdle /\ SendIdle
    /\ tickNo = 0 /\ inFlight = {} /\ tickHist = <<>> /\ logTick = <<>> /\ logCommit = <<>>

\* ------------------------------------------------------- main(): startup
\* a startup step either completes and moves on, or raises and main()'s
\* rejection handler exits the process
\* mutant: a failed startup step is ignored
StartupStep_Continue(from, to, ok) ==
    /\ mainPc = from
    /\ mainPc' = to
    /\ UNCHANGED <<envVars, running, log, now, chainSlot, tickVars, sendVars,
                   sendHist, tickGhost, histVars>>

StartupStep(from, to, ok) ==
    /\ mainPc = from
    /\ mainPc' = IF ok THEN to ELSE "fatal"
    /\ UNCHANGED <<envVars, running, log, now, chainSlot, tickVars, sendVars,
                   sendHist, tickGhost, histVars>>

CheckInterval ==
    /\ StartupStep("checkInterval", "loadKeypair",
                   ~(intervalMs = NaN \/ intervalMs < MinIntervalMs))
    /\ UNCHANGED tokenPubkeys

LoadKeypair ==
    /\ \E ok \in BOOLEAN : StartupStep("loadKeypair", "getBalance", ok)
    /\ UNCHANGED tokenPubkeys

GetBalance ==
    /\ \E ok \in BOOLEAN : StartupStep("getBalance", "validate", ok)
    /\ UNCHANGED tokenPubkeys

ValidateSupabase ==
    /\ \E ok \in BOOLEAN : StartupStep("validate", "loadAccounts", ok)
    /\ UNCHANGED tokenPubkeys

LoadTokenAccounts ==
    \E ok \in BOOLEAN :
        /\ mainPc = "loadAccounts"
        /\ mainPc' = IF ok THEN "loopTest" ELSE "fatal"
        /\ tokenPubkeys' = IF ok THEN TrackedPubkeys ELSE tokenPubkeys
        /\ running' = ok
        /\ UNCHANGED <<envVars, log, now, chainSlot, tickVars, sendVars,
                       sendHist, tickGhost, histVars>>

\* ---------------------------------------------------------- main(): loop
\* mutant: the handler ends the process at once
shutdown_exit ==
    /\ mainPc \in LoopPcs
    /\ running
    /\ running' = FALSE
    /\ mainPc' = "stopped"
    /\ signalInTick' = (mainPc = "inTick")
    /\ UNCHANGED <<envVars, tokenPubkeys, log, now, chainSlot, tickVars,
                   sendVars, sendHist, idFetchFailed, commitOutcome, confirmedSig,
                   appended, histVars>>

\* SIGINT / SIGTERM handler
shutdown ==
    /\ mainPc \in LoopPcs
    /\ running
    /\ running' = FALSE
    /\ signalInTick' = (mainPc = "inTick")
    /\ UNCHANGED <<envVars, mainPc, tokenPubkeys, log, now, chainSlot, tickVars,
                   sendVars, sendHist, idFetchFailed, commitOutcome, confirmedSig,
                   appended, histVars>>

\* mutant: `while (true)`
LoopTest_Always(run) == TRUE

\* `while (running)`
LoopTest(run) == run

\* `while (running)` entered: runTick is called
StartTick ==
    /\ mainPc = "loopTest"
    /\ LoopTest(running)
    /\ tickNo < MaxTicks
    /\ mainPc' = "inTick"
    /\ tpc' = "fetching"
    /\ tickNo' = tickNo + 1
    /\ inFlight' = inFlight \cup {tickNo + 1}
    /\ docResult' = None /\ snapshot' = None /\ entropy' = None /\ ts' = None
    /\ signature' = None /\ tx' = None
    /\ idFetchFailed' = FALSE /\ commitOutcome' = "none" /\ confirmedSig' = None
    /\ appended' = 0 /\ signalInTick' = FALSE
    /\ UNCHANGED <<envVars, running, tokenPubkeys, log, now, chainSlot, sendVars,
                   sendHist, tickHist, logTick, logCommit>>

\* `while (running)` false: the loop ends
LoopExit ==
    /\ mainPc = "loopTest"
    /\ ~LoopTest(running)
    /\ mainPc' = "stopped"
    /\ UNCHANGED <<envVars, running, tokenPubkeys, log, now, chainSlot, tickVars,
                   sendVars, sendHist, tickGhost, histVars>>

\* mutant: runTick is not awaited, main resumes at once
Settled_NoAwait(how) == how = "returned"

\* `await runTick(...)`: main resumes once the call has settled as `how`
Settled(how) == tpc = how

ResetTick ==
    /\ tpc' = "idle" /\ docResult' = None /\ snapshot' = None /\ entropy' = None
    /\ ts' = None /\ signature' = None /\ tx' = None
    /\ idFetchFailed' = FALSE /\ commitOutcome' = "none" /\ confirmedSig' = None
    /\ appended' = 0 /\ signalInTick' = FALSE

TickReturned ==
    /\ mainPc = "inTick"
    /\ Settled("returned")
    /\ mainPc' = "afterTick"
    /\ ResetTick
    /\ UNCHANGED <<envVars, running, tokenPubkeys, log, now, chainSlot, sendVars,
                   sendHist, histVars>>

\* mutant: no try/catch around runTick, the rejection reaches main().catch
CatchTarget_Uncaught == "fatal"

\* where a tick that raised is caught
CatchTarget == "afterTick"

TickCaught ==
    /\ mainPc = "inTick"
    /\ Settled("threw")
    /\ mainPc' = CatchTarget
    /\ ResetTick
    /\ UNCHANGED <<envVars, running, tokenPubkeys, log, now, chainSlot, sendVars,
                   sendHist, histVars>>

\* `if (!running) break;`
AfterTickBreak ==
    /\ mainPc = "afterTick"
    /\ ~running
    /\ mainPc' = "stopped"
    /\ UNCHANGED <<envVars, running, tokenPubkeys, log, now, chainSlot, tickVars,
                   sendVars, sendHist, tickGhost, histVars>>

AfterTickSleep ==
    /\ mainPc = "afterTick"
    /\ running
    /\ mainPc' = "sleeping"
    /\ UNCHANGED <<envVars, running, tokenPubkeys, log, now, chainSlot, tickVars,
                   sendVars, sendHist, tickGhost, histVars>>

\* the inter-tick sleep elapses; the clock and the ledger have moved on
SleepElapsed ==
    /\ mainPc = "sleeping"
    /\ mainPc' = "loopTest"
    /\ now' = now + 1
    /\ chainSlot' = chainSlot + 1
    /\ UNCHANGED <<envVars, running, tokenPubkeys, log, tickVars, sendVars,
                   sendHist, tickGhost, histVars>>

\* ---------------------------------------------------------------- runTick
\* the tick settles: it leaves the set of ticks in flight
Settle(how) ==
    /\ tpc' = how
    /\ inFlight' = inFlight \ {tickNo}
    /\ tickHist' = Append(tickHist, how)

\* fetchDocumentIds resolves: the rows as strings, sorted
FetchIdsOk ==
    /\ tpc = "fetching"
    /\ docResult = None
    /\ docResult' = Some([ids |-> ArraySort(storeRows), table |-> "documents",
                          count |-> Len(storeRows)])
    /\ UNCHANGED <<envVars, mainVars, tpc, snapshot, entropy, ts, signature, tx,
                   sendVars, sendHist, tickGhost, histVars>>

\* mutant: the substitute list holds one blank id
IdFetchFallback_Blank == [ids |-> << <<>> >>, table |-> "unknown", count |-> 0]

\* what the .catch on fetchDocumentIds substitutes
IdFetchFallback == [ids |-> <<>>, table |-> "unknown", count |-> 0]

\* fetchDocumentIds rejects
FetchIdsFail ==
    /\ tpc = "fetching"
    /\ docResult = None
    /\ docResult' = Some(IdFetchFallback)
    /\ idFetchFailed' = TRUE
    /\ UNCHANGED <<envVars, mainVars, tpc, snapshot, entropy, ts, signature, tx,
                   sendVars, sendHist, commitOutcome, confirmedSig, appended,
                   signalInTick, histVars>>

fetchSnapshot(pubkeys) ==
    [slot |-> chainSlot,
     blockhash |-> BlockhashAt(chainSlot),
     token_states |-> [i \in 1..Len(pubkeys) |-> fetchTokenState(ledger[i], pubkeys[i])]]

FetchSnapshotOk ==
    /\ tpc = "fetching"
    /\ snapshot = None
    /\ snapshot' = Some(fetchSnapshot(tokenPubkeys))
    /\ UNCHANGED <<envVars, mainVars, tpc, docResult, entropy, ts, signature, tx,
                   sendVars, sendHist, tickGhost, histVars>>

\* mutant: the rejection is swallowed and the tick returns
OnSnapshotReject_Swallowed == "returned"

\* how runTick settles when fetchSnapshot rejects: nothing catches it
OnSnapshotReject == "threw"

\* getSlot or getLatestBlockhash rejects: Promise.all rejects and runTick raises,
\* whether or not the id fetch has resolved
FetchSnapshotFail ==
    /\ tpc = "fetching"
    /\ snapshot = None
    /\ Settle(OnSnapshotReject)
    /\ UNCHANGED <<envVars, mainVars, docResult, snapshot, entropy, ts, signature, tx,
                   sendVars, sendHist, tickGhost, tickNo, logTick, logCommit>>

\* mutant: the record is written right after the derivation
AfterDerive_PersistFirst == "persist"

\* the stage that follows the derivation
AfterDerive == "commit"

\* both fetches resolved: computeEntropy (which sorts the id array in place)
\* and the timestamp
Derive ==
    /\ tpc = "fetching"
    /\ docResult # None /\ snapshot # None
    /\ LET e == computeEntropy(snapshot[1], docResult[1].ids)
       IN  entropy' = Some([tokens_state_hash |-> e.tokens_state_hash,
                            docs_hash |-> e.docs_hash,
                            entropy_seed |-> e.entropy_seed,
                            doc_count |-> e.doc_count])
    /\ docResult' = Some([docResult[1] EXCEPT !.ids = ArraySort(@)])
    /\ ts' = Some(now)
    /\ tpc' = AfterDerive
    /\ UNCHANGED <<envVars, mainVars, snapshot, signature, tx, sendVars, sendHist,
                   tickGhost, histVars>>

\* mutant: the dry-run flag is not consulted
SkipCommit_Ignored(dry) == FALSE

\* `if (dryRun)`
SkipCommit(dry) == dry

CommitSkip ==
    /\ tpc = "commit"
    /\ SkipCommit(dryRun)
    /\ tpc' = "persist"
    /\ commitOutcome' = "skipped"
    /\ UNCHANGED <<envVars, mainVars, docResult, snapshot, entropy, ts, signature, tx,
                   sendVars, sendHist, idFetchFailed, confirmedSig, appended,
                   signalInTick, histVars>>

\* sendCommit is called and awaits the latest block reference; the ledger is
\* taken to have produced a new block since the snapshot
CommitCall ==
    /\ tpc = "commit"
    /\ ~SkipCommit(dryRun)
    /\ tpc' = "building"
    /\ chainSlot' = chainSlot + 1
    /\ UNCHANGED <<envVars, mainPc, running, tokenPubkeys, log, now, docResult,
                   snapshot, entropy, ts, signature, tx, sendVars, sendHist,
                   tickGhost, histVars>>

\* the payload runTick builds from the snapshot and the entropy result
PayloadOf(snap, e) ==
    [slot |-> snap.slot,
     blockhash |-> snap.blockhash,
     tokens_state_hash |-> e.tokens_state_hash,
     docs_hash |-> e.docs_hash,
     doc_count |-> e.doc_count,
     entropy_seed |-> e.entropy_seed]

CommitPayload == PayloadOf(snapshot[1], entropy[1])

\* mutant: the count segment is left out of the memo
formatMemoContent_NoCount(payload) ==
    <<"LAVA_V1">>
    \o <<"|", "slot", "=">> \o DecStr(payload.slot)
    \o <<"|", "blockhash", "=">> \o payload.blockhash
    \o <<"|", "tokens", "=">> \o payload.tokens_state_hash
    \o <<"|", "docs", "=">> \o payload.docs_hash
    \o <<"|", "seed", "=">> \o payload.entropy_seed

formatMemoContent(payload) ==
    <<"LAVA_V1">>
    \o <<"|", "slot", "=">> \o DecStr(payload.slot)
    \o <<"|", "blockhash", "=">> \o payload.blockhash
    \o <<"|", "tokens", "=">> \o payload.tokens_state_hash
    \o <<"|", "docs", "=">> \o payload.docs_hash
    \o <<"|", "n", "=">> \o DecStr(payload.doc_count)
    \o <<"|", "seed", "=">> \o payload.entropy_seed

\* String.prototype.split on a one-character separator
RECURSIVE Split(_, _)
Split(s, sep) ==
    IF \A i \in 1..Len(s) : s[i] # sep THEN <<s>>
    ELSE LET i == CHOOSE j \in 1..Len(s) : s[j] = sep /\ \A k \in 1..(j - 1) : s[k] # sep
         IN  <<SubSeq(s, 1, i - 1)>> \o Split(SubSeq(s, i + 1, Len(s)), sep)

IsDigit(c) == c \in {"0", "1", "2", "3", "4", "5", "6", "7", "8", "9"}

DigitVal(c) == CHOOSE d \in 0..9 : Digit(d) = c

RECURSIVE DigitsVal(_)
DigitsVal(s) == IF s = <<>> THEN 0 ELSE 10 * DigitsVal(SubSeq(s, 1, Len(s) - 1)) + DigitVal(s[Len(s)])

\* parseInt(s, 10): an optional sign and the longest run of digits after it;
\* None is NaN
ParseInt(s) ==
    LET signed == s # <<>> /\ s[1] \in {"-", "+"}
        body == IF signed THEN Tail(s) ELSE s
        k == CHOOSE n \in 0..Len(body) :
                 /\ \A i \in 1..n : IsDigit(body[i])
                 /\ n = Len(body) \/ ~IsDigit(body[n + 1])
        magnitude == DigitsVal(SubSeq(body, 1, k))
    IN  IF k = 0 THEN None
        ELSE Some(IF signed /\ s[1] = "-" THEN 0 - magnitude ELSE magnitude)

StartsWith(part, prefix) ==
    Len(part) >= Len(prefix) /\ SubSeq(part, 1, Len(prefix)) = prefix

\* mutant: the value is taken from the part at the key's canonical position
MemoGet_Positional(parts, prefix) ==
    LET keys == <<"slot", "blockhash", "tokens", "docs", "n", "seed">>
        i == 1 + (CHOOSE k \in 1..6 : keys[k] = prefix)
    IN  IF i > Len(parts) THEN None
        ELSE Some(SubSeq(parts[i], 3, Len(parts[i])))

\* parseMemoContent's `get`: the first part that starts with prefix=, without
\* that start; None is undefined
MemoGet(parts, prefix) ==
    LET hits == {i \in 1..Len(parts) : StartsWith(parts[i], <<prefix, "=">>)}
    IN  IF hits = {} THEN None
        ELSE LET i == CHOOSE j \in hits : \A k \in hits : j <= k
             IN  Some(SubSeq(parts[i], 3, Len(parts[i])))

\* `!str`: undefined or the empty string
Falsy(opt) == opt = None \/ opt[1] = <<>>

\* null is None
parseMemoContent(memo) ==
    LET parts == Split(memo, "|")
        slotStr == MemoGet(parts, "slot")
        blockhash == MemoGet(parts, "blockhash")
        tokens_state_hash == MemoGet(parts, "tokens")
        docs_hash == MemoGet(parts, "docs")
        doc_count_str == MemoGet(parts, "n")
        entropy_seed == MemoGet(parts, "seed")
    IN  IF Len(parts) < 6 \/ parts[1] # <<"LAVA_V1">> THEN None
        ELSE IF Falsy(slotStr) \/ Falsy(blockhash) \/ Falsy(tokens_state_hash)
                \/ Falsy(docs_hash) \/ Falsy(entropy_seed) THEN None
        ELSE IF ParseInt(slotStr[1]) = None THEN None
        ELSE LET doc_count == IF Falsy(doc_count_str) THEN Some(0)
                              ELSE ParseInt(doc_count_str[1])
             IN  Some([version |-> <<"LAVA_V1">>,
                       slot |-> ParseInt(slotStr[1])[1],
                       blockhash |-> blockhash[1],
                       tokens_state_hash |-> tokens_state_hash[1],
                       docs_hash |-> docs_hash[1],
                       doc_count |-> IF doc_count = None THEN 0 ELSE doc_count[1],
                       entropy_seed |-> entropy_seed[1]])

\* buildCommitTransaction: the block reference is fetched afresh, then
\* sendWithRetry is called with no options
BuildTxOk ==
    /\ tpc = "building"
    /\ tx' = Some([recentBlockhash |-> BlockhashAt(chainSlot),
                   memo |-> formatMemoContent(CommitPayload)])
    /\ tpc' = "sending"
    /\ spc' = "attempt"
    /\ maxRetries' = DefaultMaxRetries
    /\ baseDelay' = DefaultBaseDelayMs
    /\ attempt' = 0
    /\ lastErr' = None /\ sendResult' = None
    /\ sendAttempts' = 0 /\ slept' = <<>> /\ sawNonTransient' = FALSE
    /\ UNCHANGED <<envVars, mainVars, docResult, snapshot, entropy, ts, signature,
                   tickGhost, histVars>>

\* getLatestBlockhash rejects: sendCommit raises into runTick's catch
BuildTxFail ==
    /\ tpc = "building"
    /\ tpc' = "persist"
    /\ commitOutcome' = "failed"
    /\ UNCHANGED <<envVars, mainVars, docResult, snapshot, entropy, ts, signature, tx,
                   sendVars, sendHist, idFetchFailed, confirmedSig, appended,
                   signalInTick, histVars>>

\* ---------------------------------------------------------- sendWithRetry
\* sendAndConfirmTransaction signs the transaction: the signature is a
\* function of its content
SignatureOf(t) == <<"sig(" \o Flat(t.memo) \o "@" \o Flat(t.recentBlockhash) \o ")">>

\* mutant: the last attempt is taken to be the one before maxRetries
ShouldThrow_OffByOne(isTransient, att, maxR) == ~isTransient \/ att + 1 = maxR

\* mutant: every fault is retried until the attempts are exhausted
ShouldThrow_RetryAll(isTransient, att, maxR) == att = maxR

\* `!isTransient || attempt === maxRetries`
ShouldThrow(isTransient, att, maxR) == ~isTransient \/ att = maxR

BackoffDelay(base, att) == base * Pow2(att)

\* an attempt is confirmed: the call returns the signature
SendOk ==
    /\ spc = "attempt"
    /\ sendAttempts' = sendAttempts + 1
    /\ sendResult' = Some(SignatureOf(tx[1]))
    /\ confirmedSig' = Some(SignatureOf(tx[1]))
    /\ spc' = "returned"
    /\ UNCHANGED <<envVars, mainVars, tickVars, maxRetries, baseDelay, attempt, lastErr,
                   slept, sawNonTransient, idFetchFailed, commitOutcome, appended,
                   signalInTick, histVars>>

\* an attempt raises: the catch block either raises the terminal error or
\* starts the backoff sleep
SendFail ==
    /\ spc = "attempt"
    /\ \E err \in ErrorMessages :
          /\ lastErr' = Some(err)
          /\ sawNonTransient' = (sawNonTransient \/ ~isTransientError(err))
          /\ IF ShouldThrow(isTransientError(err), attempt, maxRetries)
             THEN /\ spc' = "threw"
                  /\ slept' = slept
             ELSE /\ spc' = "backoff"
                  /\ slept' = Append(slept, BackoffDelay(baseDelay, attempt))
    /\ sendAttempts' = sendAttempts + 1
    /\ UNCHANGED <<envVars, mainVars, tickVars, maxRetries, baseDelay, attempt,
                   sendResult, tickGhost, histVars>>

\* mutant: every retry is rebuilt on a newer block reference
TxOnRetry_Refetched(t, slot) == [t EXCEPT !.recentBlockhash = BlockhashAt(slot + 1)]

\* the transaction the next attempt submits: the same `transaction` argument
TxOnRetry(t, slot) == t

\* the backoff sleep elapses: `attempt++`, then the loop test
BackoffElapsed ==
    /\ spc = "backoff"
    /\ attempt' = attempt + 1
    /\ spc' = IF attempt + 1 <= maxRetries THEN "attempt" ELSE "threw"
    /\ tx' = Some(TxOnRetry(tx[1], chainSlot))
    /\ UNCHANGED <<envVars, mainVars, tpc, docResult, snapshot, entropy, ts, signature,
                   maxRetries, baseDelay, lastErr, sendResult, sendHist, tickGhost,
                   histVars>>

ResetSend ==
    /\ spc' = "idle" /\ maxRetries' = 0 /\ baseDelay' = 0 /\ attempt' = 0
    /\ lastErr' = None /\ sendResult' = None
    /\ sendAttempts' = 0 /\ slept' = <<>> /\ sawNonTransient' = FALSE

\* ------------------------------------------- runTick: commit result, persist
\* mutant: the returned signature is not stored
SignatureOnSuccess_Dropped(result) == None

\* what runTick's `signature` holds after sendCommit returned `result`
SignatureOnSuccess(result) == result

\* what runTick's `signature` holds after the catch block
SignatureOnFailure(old) == old

\* sendWithRetry returned: sendCommit returns {signature, explorerUrl}
SendCommitReturn ==
    /\ tpc = "sending"
    /\ spc = "returned"
    /\ signature' = SignatureOnSuccess(sendResult)
    /\ commitOutcome' = "confirmed"
    /\ tpc' = "persist"
    /\ ResetSend
    /\ UNCHANGED <<envVars, mainVars, docResult, snapshot, entropy, ts, tx,
                   idFetchFailed, confirmedSig, appended, signalInTick, histVars>>

\* mutant: the catch block returns from runTick
AfterCommitFailure_Return == "returned"

\* where runTick goes after its catch block
AfterCommitFailure == "persist"

\* sendWithRetry raised: caught and logged by runTick
SendCommitThrow ==
    /\ tpc = "sending"
    /\ spc = "threw"
    /\ signature' = SignatureOnFailure(signature)
    /\ commitOutcome' = "failed"
    /\ tpc' = AfterCommitFailure
    /\ ResetSend
    /\ UNCHANGED <<envVars, mainVars, docResult, snapshot, entropy, ts, tx,
                   idFetchFailed, confirmedSig, appended, signalInTick, histVars>>

\* the record runTick appends
RecordOf(t, snap, e, sig) ==
    [ts |-> t,
     slot |-> snap.slot,
     blockhash |-> snap.blockhash,
     tokens_state_hash |-> e.tokens_state_hash,
     docs_hash |-> e.docs_hash,
     doc_count |-> e.doc_count,
     entropy_seed |-> e.entropy_seed,
     signature |-> sig]

CommitRecord == RecordOf(ts[1], snapshot[1], entropy[1], signature)

\* mutant: the file is written, not appended to
appendCommit_Overwrite(file, record) == <<record>>

\* fs.appendFileSync
appendCommit(file, record) == Append(file, record)

AppendOk ==
    /\ tpc = "persist"
    /\ log' = appendCommit(log, CommitRecord)
    /\ logTick' = Append(logTick, tickNo)
    /\ logCommit' = Append(logCommit, [outcome |-> commitOutcome, sig |-> confirmedSig,
                                       idFetchFailed |-> idFetchFailed])
    /\ appended' = appended + 1
    /\ Settle("returned")
    /\ UNCHANGED <<envVars, mainPc, running, tokenPubkeys, now, chainSlot, docResult,
                   snapshot, entropy, ts, signature, tx, sendVars, sendHist,
                   idFetchFailed, commitOutcome, confirmedSig, signalInTick, tickNo>>

\* fs.appendFileSync raises: runTick raises, nothing was written
AppendFail ==
    /\ tpc = "persist"
    /\ Settle("threw")
    /\ UNCHANGED <<envVars, mainVars, docResult, snapshot, entropy, ts, signature, tx,
                   sendVars, sendHist, tickGhost, tickNo, logTick, logCommit>>

\* ----------------------------------------------------------- specification
Startup ==
    \/ CheckInterval \/ LoadKeypair \/ GetBalance \/ ValidateSupabase
    \/ LoadTokenAccounts

MainLoop ==
    \/ StartTick \/ LoopExit \/ TickReturned \/ TickCaught
    \/ AfterTickBreak \/ AfterTickSleep \/ SleepElapsed \/ shutdown

Tick ==
    \/ FetchIdsOk \/ FetchIdsFail \/ FetchSnapshotOk \/ FetchSnapshotFail
    \/ Derive \/ CommitSkip \/ CommitCall \/ BuildTxOk \/ BuildTxFail
    \/ SendCommitReturn \/ SendCommitThrow \/ AppendOk \/ AppendFail

SendWithRetry == SendOk \/ SendFail \/ BackoffElapsed

Next == Startup \/ MainLoop \/ Tick \/ SendWithRetry

Spec == Init /\ [][Next]_vars

\* the orchestrator in one environment, every started tick running to its
\* end and every sleep elapsing; signals and new ticks are not forced
InitLive ==
    /\ Init
    /\ intervalMs = DefaultIntervalMs /\ storeRows = <<>> /\ ledger = <<"token", "token">>

DeriveReady == tpc = "fetching" /\ docResult # None /\ snapshot # None

\* every step of the loop, of a tick and of a send that the process takes by
\* itself once it is possible (the signal and the startup are not among them)
Progress ==
    \/ LoopExit \/ TickReturned \/ TickCaught \/ AfterTickBreak \/ AfterTickSleep
    \/ SleepElapsed \/ SendWithRetry
    \/ FetchIdsOk \/ FetchIdsFail \/ FetchSnapshotOk \/ FetchSnapshotFail
    \/ CommitSkip \/ CommitCall \/ BuildTxOk \/ BuildTxFail
    \/ SendCommitReturn \/ SendCommitThrow \/ AppendOk \/ AppendFail

\* weak fairness of Derive, written over its guard: the derivation is
\* synchronous code, so ENABLED <<Derive>>_vars is DeriveReady
DeriveFair == ([]<>~DeriveReady) \/ ([]<><<Derive>>_vars)

SpecLive == InitLive /\ [][Next]_vars /\ WF_vars(Progress) /\ DeriveFair

\* sendWithRetry called directly, with a maxRetries option
SampleTx == [recentBlockhash |-> BlockhashAt(1), memo |-> <<"LAVA_V1">>]

InitSend ==
    /\ dryRun = FALSE /\ intervalMs = DefaultIntervalMs /\ storeRows = <<>>
    /\ ledger = <<"token", "token">>
    /\ call = NoCall
    /\ mainPc = "direct" /\ running = FALSE /\ tokenPubkeys = <<>> /\ log = <<>>
    /\ now = 0 /\ chainSlot = 1
    /\ tpc = "idle" /\ docResult = None /\ snapshot = None /\ entropy = None
    /\ ts = None /\ signature = None /\ tx = Some(SampleTx)
    /\ idFetchFailed = FALSE /\ commitOutcome = "none" /\ confirmedSig = None
    /\ appended = 0 /\ signalInTick = FALSE
    /\ spc = "attempt" /\ maxRetries \in 0..MaxRetriesOpt
    /\ baseDelay = DefaultBaseDelayMs /\ attempt = 0
    /\ lastErr = None /\ sendResult = None
    /\ sendAttempts = 0 /\ slept = <<>> /\ sawNonTransient = FALSE
    /\ tickNo = 0 /\ inFlight = {} /\ tickHist = <<>> /\ logTick = <<>> /\ logCommit = <<>>

SpecSend == InitSend /\ [][SendWithRetry]_vars

\* ---------------------------------------------------------- direct calls
\* the orchestrator is not running: one exported function is called directly
DirectMain ==
    /\ dryRun = FALSE /\ intervalMs = DefaultIntervalMs /\ storeRows = <<>>
    /\ mainPc = "direct" /\ running = FALSE /\ log = <<>> /\ now = 0
    /\ tickNo = 0 /\ inFlight = {} /\ tickHist = <<>> /\ logTick = <<>> /\ logCommit = <<>>

\* the pubkeys a direct fetchSnapshot call is given
PubkeyPool == << <<"B">>, <<"A">>, <<"b">>, <<"a">> >>

\* fetchSnapshot(connection, pubkeys) over every combination of account reads
InitSnapshot ==
    /\ DirectMain /\ SendIdle
    /\ call = NoCall
    /\ \E n \in 0..MaxAccounts :
          /\ tokenPubkeys = SubSeq(PubkeyPool, 1, n)
          /\ ledger \in [1..n -> AccountKinds]
    /\ chainSlot = 1
    /\ tpc = "fetching" /\ docResult = None /\ snapshot = None /\ entropy = None
    /\ ts = None /\ signature = None /\ tx = None
    /\ idFetchFailed = FALSE /\ commitOutcome = "none" /\ confirmedSig = None
    /\ appended = 0 /\ signalInTick = FALSE

SpecSnapshot == InitSnapshot /\ [][FetchSnapshotOk \/ FetchSnapshotFail]_vars

\* computeEntropy(snapshot, documentIds) called directly: once, a second time
\* with the same snapshot object and the same id array, and once with a
\* permutation of both
Perms(n) == {f \in [1..n -> 1..n] : \A i, j \in 1..n : f[i] = f[j] => i = j}

Permute(a, f) == [i \in 1..Len(a) |-> a[f[i]]]

\* account states as fetchTokenState yields them; an array may hold two
\* states of one pubkey (a pubkey listed twice, read twice)
StatePool == {fetchTokenState(k, pk) : k \in {"token", "absent"}, pk \in {<<"A">>, <<"B">>}}

StateArrays == UNION {[1..n -> StatePool] : n \in 0..MaxStates}

InitEntropy ==
    /\ DirectMain /\ SendIdle /\ TickIdle
    /\ ledger = <<>> /\ tokenPubkeys = <<>> /\ chainSlot = 1
    /\ \E states \in StateArrays, ids \in RowLists :
         \E f \in Perms(Len(states)), g \in Perms(Len(ids)) :
           LET snap == [slot |-> 1, blockhash |-> BlockhashAt(1), token_states |-> states]
           IN  call = [op |-> "computeEntropy", pc |-> "args",
                       args |-> [snapshot |-> snap, documentIds |-> ids],
                       snapshot |-> snap, documentIds |-> ids,
                       permSnapshot |-> [snap EXCEPT !.token_states = Permute(states, f)],
                       permIds |-> Permute(ids, g),
                       first |-> None, second |-> None, permuted |-> None]

\* one call: the result, and the caller's id array after `documentIds.sort()`
\* (the snapshot's array is copied before it is sorted)
ComputeOnce ==
    /\ call.op = "computeEntropy" /\ call.pc = "args"
    /\ call' = [call EXCEPT !.pc = "once",
                             !.first = Some(computeEntropy(call.snapshot, call.documentIds)),
                             !.documentIds = ArraySort(@)]
    /\ UNCHANGED <<dryRun, intervalMs, storeRows, ledger, mainVars, tickVars, sendVars,
                   sendHist, tickGhost, histVars>>

ComputeAgain ==
    /\ call.op = "computeEntropy" /\ call.pc = "once"
    /\ call' = [call EXCEPT !.pc = "twice",
                             !.second = Some(computeEntropy(call.snapshot, call.documentIds)),
                             !.documentIds = ArraySort(@)]
    /\ UNCHANGED <<dryRun, intervalMs, storeRows, ledger, mainVars, tickVars, sendVars,
                   sendHist, tickGhost, histVars>>

ComputePermuted ==
    /\ call.op = "computeEntropy" /\ call.pc = "twice"
    /\ call' = [call EXCEPT !.pc = "permuted",
                             !.permuted = Some(computeEntropy(call.permSnapshot, call.permIds)),
                             !.permIds = ArraySort(@)]
    /\ UNCHANGED <<dryRun, intervalMs, storeRows, ledger, mainVars, tickVars, sendVars,
                   sendHist, tickGhost, histVars>>

SpecEntropy == InitEntropy /\ [][ComputeOnce \/ ComputeAgain \/ ComputePermuted]_vars

\* formatMemoContent(payload) and parseMemoContent(memo) called directly
Payloads ==
    [slot : {0, 7, 120},
     blockhash : {BlockhashAt(1), <<"n", "=", "9">>, <<"seed", "=", "h">>},
     tokens_state_hash : {sha3_256(<<"t">>), <<"d", "o", "c", "s">>},
     docs_hash : {sha3_256(<<>>), <<"s", "l", "o", "t", "=", "5">>},
     doc_count : {0, 3, 15},
     entropy_seed : {sha3_256(<<"s">>), <<"0">>}]

SamplePayload ==
    [slot |-> 7, blockhash |-> BlockhashAt(7), tokens_state_hash |-> sha3_256(<<"t">>),
     docs_hash |-> sha3_256(<<>>), doc_count |-> 3, entropy_seed |-> sha3_256(<<"s">>)]

SegmentKeys == <<"slot", "blockhash", "tokens", "docs", "n", "seed">>

\* the parts of a memo after the version tag
SegmentsOf(payload) == Tail(Split(formatMemoContent(payload), "|"))

\* memos as a chain may hold them: either version tag, any of the six
\* segments left out
MemoInputs ==
    {JoinStr(<<tag>> \o SelectSeq(SegmentsOf(SamplePayload), LAMBDA part : part[1] \in keep), "|") :
        tag \in {<<"LAVA_V1">>, <<"LAVA_V2">>}, keep \in SUBSET {SegmentKeys[i] : i \in 1..6}}

\* a payload whose values read like other segments
KeyLikePayload ==
    [slot |-> 120, blockhash |-> <<"seed", "=", "h">>,
     tokens_state_hash |-> <<"d", "o", "c", "s">>,
     docs_hash |-> <<"s", "l", "o", "t", "=", "5">>, doc_count |-> 15,
     entropy_seed |-> <<"0">>]

\* a well-formed memo with its six segments in the order perm
ReorderedMemo(payload, perm) ==
    JoinStr(<<(<<"LAVA_V1">>)>> \o Permute(SegmentsOf(payload), perm), "|")

\* `canon` is the writer's memo of which `memo` is a reordering, if any
InitMemo ==
    /\ DirectMain /\ SendIdle /\ TickIdle
    /\ ledger = <<>> /\ tokenPubkeys = <<>> /\ chainSlot = 1
    /\ \/ \E p \in Payloads :
            call = [op |-> "memo", pc |-> "payload", payload |-> Some(p), memo |-> None,
                    parsed |-> None, canon |-> None]
       \/ \E m \in MemoInputs :
            call = [op |-> "memo", pc |-> "memo", payload |-> None, memo |-> Some(m),
                    parsed |-> None, canon |-> None]
       \/ \E p \in {SamplePayload, KeyLikePayload} :
          \E perm \in Perms(Len(SegmentsOf(p))) :
            call = [op |-> "memo", pc |-> "memo", payload |-> None,
                    memo |-> Some(ReorderedMemo(p, perm)), parsed |-> None,
                    canon |-> Some(formatMemoContent(p))]

FormatMemo ==
    /\ call.op = "memo" /\ call.pc = "payload"
    /\ call' = [call EXCEPT !.pc = "memo", !.memo = Some(formatMemoContent(call.payload[1]))]
    /\ UNCHANGED <<dryRun, intervalMs, storeRows, ledger, mainVars, tickVars, sendVars,
                   sendHist, tickGhost, histVars>>

ParseMemo ==
    /\ call.op = "memo" /\ call.pc = "memo"
    /\ call' = [call EXCEPT !.pc = "parsed", !.parsed = parseMemoContent(call.memo[1])]
    /\ UNCHANGED <<dryRun, intervalMs, storeRows, ledger, mainVars, tickVars, sendVars,
                   sendHist, tickGhost, histVars>>

SpecMemo == InitMemo /\ [][FormatMemo \/ ParseMemo]_vars

\* two ticks over the same snapshot, timestamp and send outcome, each with
\* its own id list: what either derives, formats and records
WideIdPool == { <<"a">>, <<"b">>, <<"a", "|", "b">>, <<"b", "|", "b">> }

WideIdLists == UNION { [1..n -> WideIdPool] : n \in 0..MaxIds }

\* runTick from computeEntropy to the record, the id list being `ids`
TickOutput(snap, t, sig, ids) ==
    LET e == computeEntropy(snap, ids)
    IN  [payload |-> PayloadOf(snap, e),
         memo |-> formatMemoContent(PayloadOf(snap, e)),
         record |-> RecordOf(t, snap, e, sig)]

InitTwoTicks ==
    /\ DirectMain /\ SendIdle /\ TickIdle
    /\ ledger = <<>> /\ tokenPubkeys = <<>> /\ chainSlot = 1
    /\ \E idsA \in WideIdLists, idsB \in WideIdLists,
          sig \in {None, Some(SignatureOf(SampleTx))} :
         call = [op |-> "ticks", pc |-> "start",
                 snapshot |-> [slot |-> 1, blockhash |-> BlockhashAt(1),
                               token_states |-> <<fetchTokenState("token", <<"A">>)>>],
                 ts |-> 0, signature |-> sig,
                 idsA |-> idsA, idsB |-> idsB, outA |-> None, outB |-> None]

TickA ==
    /\ call.op = "ticks" /\ call.pc = "start"
    /\ call' = [call EXCEPT !.pc = "one",
                    !.outA = Some(TickOutput(call.snapshot, call.ts, call.signature, call.idsA))]
    /\ UNCHANGED <<dryRun, intervalMs, storeRows, ledger, mainVars, tickVars, sendVars,
                   sendHist, tickGhost, histVars>>

TickB ==
    /\ call.op = "ticks" /\ call.pc = "one"
    /\ call' = [call EXCEPT !.pc = "both",
                    !.outB = Some(TickOutput(call.snapshot, call.ts, call.signature, call.idsB))]
    /\ UNCHANGED <<dryRun, intervalMs, storeRows, ledger, mainVars, tickVars, sendVars,
                   sendHist, tickGhost, histVars>>

SpecTwoTicks == InitTwoTicks /\ [][TickA \/ TickB]_vars

\* computeEntropy on two id lists whose ids hold no delimiter (the empty
\* string is such an id: fetchDocumentIds pushes String(val) of any non-null
\* value)
InitDocs ==
    /\ DirectMain /\ SendIdle /\ TickIdle
    /\ ledger = <<>> /\ tokenPubkeys = <<>> /\ chainSlot = 1
    /\ LET pool == {<<>>, <<"a">>, <<"b">>, <<"a", "b">>}
           lists == UNION {[1..n -> pool] : n \in 0..MaxIds}
       IN  \E idsA \in lists, idsB \in lists :
             call = [op |-> "docs", pc |-> "args",
                     snapshot |-> [slot |-> 1, blockhash |-> BlockhashAt(1),
                                   token_states |-> <<>>],
                     idsA |-> idsA, idsB |-> idsB, outA |-> None, outB |-> None]

HashDocs ==
    /\ call.op = "docs" /\ call.pc = "args"
    /\ call' = [call EXCEPT !.pc = "hashed",
                             !.outA = Some(computeEntropy(call.snapshot, call.idsA)),
                             !.outB = Some(computeEntropy(call.snapshot, call.idsB))]
    /\ UNCHANGED <<dryRun, intervalMs, storeRows, ledger, mainVars, tickVars, sendVars,
                   sendHist, tickGhost, histVars>>

SpecDocs == InitDocs /\ [][HashDocs]_vars

\* ------------------------------------------------- verifyMemo.ts: main()
\* the width of a token in characters: a digest token is 64 hex digits,
\* "SHA3(T)" is a digest in upper case, "h" is the 43-character stem of a
\* block reference, every other token is one character
WideTokens == {sha3_256(<<"t">>)[1], sha3_256(<<>>)[1], sha3_256(<<"s">>)[1], "SHA3(T)"}

TokenWidth(t) == IF t \in WideTokens THEN 64 ELSE IF t = "h" THEN 43 ELSE 1

RECURSIVE StrLength(_)
StrLength(s) == IF s = <<>> THEN 0 ELSE TokenWidth(Head(s)) + StrLength(Tail(s))

LowerHex(t) ==
    \/ t \in WideTokens \ {"SHA3(T)"}
    \/ t \in {"0", "1", "2", "3", "4", "5", "6", "7", "8", "9", "a", "b", "c", "d", "e", "f"}

\* /^[0-9a-f]{64}$/.test(s)
Hex64(s) == StrLength(s) = 64 /\ \A i \in 1..Len(s) : LowerHex(s[i])

\* mutant: validation stops at the first failing check
VerifierIssues_FirstOnly(parsed) ==
    IF ~Hex64(parsed.tokens_state_hash) THEN <<"tokens_state_hash">>
    ELSE IF ~Hex64(parsed.docs_hash) THEN <<"docs_hash">>
    ELSE IF ~Hex64(parsed.entropy_seed) THEN <<"entropy_seed">>
    ELSE IF parsed.slot <= 0 THEN <<"slot">>
    ELSE IF StrLength(parsed.blockhash) < 32 THEN <<"blockhash">>
    ELSE <<>>

\* the issues pushed by the five checks, in order
VerifierIssues(parsed) ==
    (IF ~Hex64(parsed.tokens_state_hash) THEN <<"tokens_state_hash">> ELSE <<>>)
    \o (IF ~Hex64(parsed.docs_hash) THEN <<"docs_hash">> ELSE <<>>)
    \o (IF ~Hex64(parsed.entropy_seed) THEN <<"entropy_seed">> ELSE <<>>)
    \o (IF parsed.slot <= 0 THEN <<"slot">> ELSE <<>>)
    \o (IF StrLength(parsed.blockhash) < 32 THEN <<"blockhash">> ELSE <<>>)

\* mutant: the failures are printed but the process exits normally
ValidationExit_AlwaysZero(issues) == 0

\* no issue: main returns and the process exits 0; else process.exit(1)
ValidationExit(issues) == IF Len(issues) = 0 THEN 0 ELSE 1

\* memo text as a confirmed transaction may carry it
ChainMemo(slotStr, blockhash, tokens, docs, seed) ==
    JoinStr(<< <<"LAVA_V1">>, <<"slot", "=">> \o slotStr, <<"blockhash", "=">> \o blockhash,
               <<"tokens", "=">> \o tokens, <<"docs", "=">> \o docs, <<"n", "=", "3">>,
               <<"seed", "=">> \o seed >>, "|")

GoodMemo ==
    ChainMemo(<<"5">>, BlockhashAt(5), sha3_256(<<"t">>), sha3_256(<<>>), sha3_256(<<"s">>))

VerifierMemos ==
    {ChainMemo(sl, bh, t, d, sd) :
        sl \in {<<"5">>, <<"0">>, <<"-", "3">>},
        bh \in {BlockhashAt(5), <<"x", "y">>},
        t \in {sha3_256(<<"t">>), <<"SHA3(T)">>},
        d \in {sha3_256(<<>>), <<"d", "e", "a", "d">>},
        sd \in {sha3_256(<<"s">>), sha3_256(<<"s">>) \o <<"0">>}}
    \cup {<<"h", "e", "l", "l", "o">>,
          JoinStr(<< <<"LAVA_V2">> >> \o SegmentsOf(SamplePayload), "|"),
          formatMemoContent_NoCount(SamplePayload)}

InitVerify ==
    /\ DirectMain /\ SendIdle /\ TickIdle
    /\ ledger = <<>> /\ tokenPubkeys = <<>> /\ chainSlot = 1
    /\ \E sig \in BOOLEAN, rpc \in {"error", "null", "found"}, txErr \in BOOLEAN,
          memoIx \in BOOLEAN,
          logMemo \in {None} \cup {Some(m) : m \in VerifierMemos},
          ixData \in {None, Some(<<>>), Some(GoodMemo), Some(<<"h", "e", "l", "l", "o">>)} :
         call = [op |-> "verify", pc |-> "args",
                 sig |-> sig, rpc |-> rpc, txErr |-> txErr, memoIx |-> memoIx,
                 logMemo |-> logMemo, ixData |-> ixData,
                 memoText |-> None, parsed |-> None, issues |-> <<>>, reported |-> <<>>,
                 exit |-> None]

VerifyStep(from, ok, to) ==
    /\ call.op = "verify" /\ call.pc = from
    /\ call' = IF ok THEN [call EXCEPT !.pc = to]
               ELSE [call EXCEPT !.pc = "exited", !.exit = Some(1)]
    /\ UNCHANGED <<dryRun, intervalMs, storeRows, ledger, mainVars, tickVars, sendVars,
                   sendHist, tickGhost, histVars>>

\* no signature argument, or a blank one
VerifyArgs == VerifyStep("args", call.sig, "fetch")

\* getParsedTransaction raises, or resolves with null
VerifyFetch == VerifyStep("fetch", call.rpc = "found", "status")

\* mutant: the execution error is printed but does not end the run
VerifyStatus_Continue == VerifyStep("status", TRUE, "findMemo")

\* tx.meta.err is set
VerifyStatus == VerifyStep("status", ~call.txErr, "findMemo")

\* no instruction of the Memo program
VerifyFindMemo == VerifyStep("findMemo", call.memoIx, "extract")

\* the memo text: the quoted text of the memo log line, else the decoded
\* instruction data
VerifyExtract ==
    /\ call.op = "verify" /\ call.pc = "extract"
    /\ LET fromLog == call.logMemo
           memoText == IF Falsy(fromLog) THEN call.ixData ELSE fromLog
       IN  call' = IF Falsy(memoText)
                   THEN [call EXCEPT !.pc = "exited", !.exit = Some(1)]
                   ELSE [call EXCEPT !.pc = "parse", !.memoText = memoText]
    /\ UNCHANGED <<dryRun, intervalMs, storeRows, ledger, mainVars, tickVars, sendVars,
                   sendHist, tickGhost, histVars>>

VerifyParse ==
    /\ call.op = "verify" /\ call.pc = "parse"
    /\ LET parsed == parseMemoContent(call.memoText[1])
       IN  call' = IF parsed = None
                   THEN [call EXCEPT !.pc = "exited", !.exit = Some(1)]
                   ELSE [call EXCEPT !.pc = "validate", !.parsed = parsed]
    /\ UNCHANGED <<dryRun, intervalMs, storeRows, ledger, mainVars, tickVars, sendVars,
                   sendHist, tickGhost, histVars>>

\* the five checks; every issue is printed, then the exit
VerifyValidate ==
    /\ call.op = "verify" /\ call.pc = "validate"
    /\ LET issues == VerifierIssues(call.parsed[1])
       IN  call' = [call EXCEPT !.pc = "exited", !.issues = issues, !.reported = issues,
                                !.exit = Some(ValidationExit(issues))]
    /\ UNCHANGED <<dryRun, intervalMs, storeRows, ledger, mainVars, tickVars, sendVars,
                   sendHist, tickGhost, histVars>>

SpecVerify ==
    InitVerify /\ [][VerifyArgs \/ VerifyFetch \/ VerifyStatus \/ VerifyFindMemo
                     \/ VerifyExtract \/ VerifyParse \/ VerifyValidate]_vars

\* ------------------------------------------------- loadTokenAccounts, called directly
\* String.prototype.trim over blanks
RECURSIVE Trim(_)
Trim(s) ==
    IF s = <<>> THEN s
    ELSE IF Head(s) = " " THEN Trim(Tail(s))
    ELSE IF s[Len(s)] = " " THEN Trim(SubSeq(s, 1, Len(s) - 1))
    ELSE s

\* `new PublicKey(key)` does not throw
IsPublicKey(key) == key \in {<<"A">>, <<"B">>}

\* envList.split(",").map(trim).filter(Boolean)
EnvKeys(envList) ==
    LET parts == Split(envList, ",")
    IN  SelectSeq([i \in 1..Len(parts) |-> Trim(parts[i])], LAMBDA k : k # <<>>)

\* fetchTokenAccountPubkeys over the rows returned: null values and blank
\* keys skipped, the rest trimmed and sorted
StorePubkeys(rows) ==
    LET present == SelectSeq(rows, LAMBDA v : v # None /\ Trim(v[1]) # <<>>)
    IN  ArraySort([i \in 1..Len(present) |-> Trim(present[i][1])])

\* the environment of one call: TOKEN_ACCOUNTS (None when unset), the store
\* query's outcome, the config file (a non-string entry is None)
InitLoad ==
    /\ DirectMain /\ SendIdle /\ TickIdle
    /\ ledger = <<>> /\ tokenPubkeys = <<>> /\ chainSlot = 1
    /\ \E env \in {None, Some(<<" ">>), Some(<<",">>), Some(<<"A">>),
                    Some(<<"B", ",", " ", "A", " ">>), Some(<<"X">>)},
          store \in {[ok |-> FALSE, rows |-> <<>>], [ok |-> TRUE, rows |-> <<>>],
                     [ok |-> TRUE, rows |-> <<None, Some(<<" ">>)>>],
                     [ok |-> TRUE, rows |-> <<Some(<<"B">>), Some(<<" ", "A">>)>>],
                     [ok |-> TRUE, rows |-> <<Some(<<"X">>)>>]},
          file \in {[kind |-> "missing", entries |-> <<>>],
                    [kind |-> "notArray", entries |-> <<>>],
                    [kind |-> "array", entries |-> <<>>],
                    [kind |-> "array", entries |-> <<Some(<<"A">>), None>>],
                    [kind |-> "array", entries |-> <<Some(<<"A", " ">>)>>],
                    [kind |-> "array", entries |-> <<Some(<<"A">>), Some(<<"X">>)>>]} :
         call = [op |-> "load", pc |-> "env", env |-> env, store |-> store, file |-> file,
                 consulted |-> <<>>, rawKeys |-> <<>>, result |-> None, error |-> "none"]

LoadFrame ==
    UNCHANGED <<dryRun, intervalMs, storeRows, ledger, mainVars, tickVars, sendVars,
                sendHist, tickGhost, histVars>>

\* mutant: the store is queried even when the override is set
UseOverride_Never(envList) == FALSE

\* `envList && envList.trim().length > 0`
UseOverride(envList) == envList # None /\ Trim(envList[1]) # <<>>

LoadEnv ==
    /\ call.op = "load" /\ call.pc = "env"
    /\ call' = IF UseOverride(call.env)
               THEN [call EXCEPT !.pc = "check", !.consulted = @ \o <<"override">>,
                                 !.rawKeys = EnvKeys(call.env[1])]
               ELSE [call EXCEPT !.pc = "store"]
    /\ LoadFrame

\* the try block: the query raises, or yields no key, or yields the keys
LoadStore ==
    /\ call.op = "load" /\ call.pc = "store"
    /\ call' = IF call.store.ok /\ StorePubkeys(call.store.rows) # <<>>
               THEN [call EXCEPT !.pc = "check", !.consulted = @ \o <<"store">>,
                                 !.rawKeys = StorePubkeys(call.store.rows)]
               ELSE [call EXCEPT !.pc = "file", !.consulted = @ \o <<"store">>]
    /\ LoadFrame

\* the catch block: require of the config file, then its shape
LoadFile ==
    /\ call.op = "load" /\ call.pc = "file"
    /\ call' =
         LET c == [call EXCEPT !.consulted = @ \o <<"file">>]
             e == call.file.entries
         IN  IF call.file.kind = "missing"
             THEN [c EXCEPT !.pc = "threw", !.error = "config file not found"]
             ELSE IF call.file.kind = "notArray"
             THEN [c EXCEPT !.pc = "threw", !.error = "must be a JSON array"]
             ELSE IF \E i \in 1..Len(e) : e[i] = None
             THEN [c EXCEPT !.pc = "threw", !.error = "entry must be a string"]
             ELSE [c EXCEPT !.pc = "check", !.rawKeys = [i \in 1..Len(e) |-> Trim(e[i][1])]]
    /\ LoadFrame

\* the length test, then one PublicKey per key
LoadCheck ==
    /\ call.op = "load" /\ call.pc = "check"
    /\ call' = IF call.rawKeys = <<>>
               THEN [call EXCEPT !.pc = "threw", !.error = "expected at least 1"]
               ELSE IF \E i \in 1..Len(call.rawKeys) : ~IsPublicKey(call.rawKeys[i])
               THEN [call EXCEPT !.pc = "threw", !.error = "invalid public key"]
               ELSE [call EXCEPT !.pc = "returned", !.result = Some(call.rawKeys)]
    /\ LoadFrame

SpecLoad == InitLoad /\ [][LoadEnv \/ LoadStore \/ LoadFile \/ LoadCheck]_vars

\* ------------------------------------------- transferJob.ts: executeTransfer
\* two calls for the same document, each at its own await point
Calls == {1, 2}

\* the documents row: whether drive_file_id and drive_folder_id are set, and
\* transfer_status; per call: its position, the row it loaded, what it
\* returned, and (history) whether its in_progress write was applied, whether
\* it called moveFile, whether the other call was still running when it loaded
InitTransfer ==
    /\ DirectMain /\ SendIdle /\ TickIdle
    /\ ledger = <<>> /\ tokenPubkeys = <<>> /\ chainSlot = 1
    /\ \E file \in BOOLEAN, folder \in BOOLEAN,
          status \in {"none", "pending", "in_progress", "done", "error"} :
         call = [op |-> "transfer",
                 row |-> [drive_file_id |-> file, drive_folder_id |-> folder,
                          transfer_status |-> status],
                 procs |-> [p \in Calls |->
                              [pc |-> "load", doc |-> None, result |-> "none",
                               marked |-> FALSE, moved |-> FALSE, concurrent |-> FALSE]]]

TransferFrame ==
    UNCHANGED <<dryRun, intervalMs, storeRows, ledger, mainVars, tickVars, sendVars,
                sendHist, tickGhost, histVars>>

\* the row after setStatus: the update is applied, or fails and is only logged
setStatus(row, status, applied) ==
    IF applied THEN [row EXCEPT !.transfer_status = status] ELSE row

\* the select resolves; then, without another await, the row checks up to
\* the first await that follows
TLoad(p) ==
    /\ call.op = "transfer" /\ call.procs[p].pc = "load"
    /\ \E found \in BOOLEAN :
         LET doc == call.row
             me == [call.procs[p] EXCEPT
                       !.concurrent = \E q \in Calls \ {p} : call.procs[q].pc # "returned"]
         IN  call' = [call EXCEPT !.procs[p] =
                 IF ~found THEN [me EXCEPT !.pc = "returned", !.result = "error"]
                 ELSE IF ~doc.drive_file_id THEN [me EXCEPT !.pc = "setError", !.doc = Some(doc)]
                 ELSE IF doc.transfer_status = "in_progress"
                 THEN [me EXCEPT !.pc = "returned", !.result = "in_progress", !.doc = Some(doc)]
                 ELSE IF ~doc.drive_folder_id THEN [me EXCEPT !.pc = "getFile", !.doc = Some(doc)]
                 ELSE [me EXCEPT !.pc = "mark", !.doc = Some(doc)]]
    /\ TransferFrame

\* getFile resolves with a parent, resolves without one, or rejects
TGetFile(p) ==
    /\ call.op = "transfer" /\ call.procs[p].pc = "getFile"
    /\ \E parent \in BOOLEAN :
         call' = [call EXCEPT !.procs[p].pc = IF parent THEN "persistFolder" ELSE "setError"]
    /\ TransferFrame

\* the discovered folder is written to the row (the outcome is not looked at)
TPersistFolder(p) ==
    /\ call.op = "transfer" /\ call.procs[p].pc = "persistFolder"
    /\ \E applied \in BOOLEAN :
         call' = [call EXCEPT !.row.drive_folder_id = @ \/ applied,
                              !.procs[p].doc = Some([@[1] EXCEPT !.drive_folder_id = TRUE]),
                              !.procs[p].pc = "mark"]
    /\ TransferFrame

\* `await setStatus(documentId, "error", ...)`, then the error result
TSetError(p) ==
    /\ call.op = "transfer" /\ call.procs[p].pc = "setError"
    /\ \E applied \in BOOLEAN :
         call' = [call EXCEPT !.row = setStatus(@, "error", applied),
                              !.procs[p].pc = "returned", !.procs[p].result = "error"]
    /\ TransferFrame

\* `await setStatus(documentId, "in_progress", ...)`
TMarkInProgress(p) ==
    /\ call.op = "transfer" /\ call.procs[p].pc = "mark"
    /\ \E applied \in BOOLEAN :
         call' = [call EXCEPT !.row = setStatus(@, "in_progress", applied),
                              !.procs[p].marked = applied,
                              !.procs[p].pc = "move"]
    /\ TransferFrame

\* moveFile is called; it resolves, or rejects into the catch block
TMove(p) ==
    /\ call.op = "transfer" /\ call.procs[p].pc = "move"
    /\ \E ok \in BOOLEAN :
         call' = [call EXCEPT !.procs[p].moved = TRUE,
                              !.procs[p].pc = IF ok THEN "persistDone" ELSE "setError"]
    /\ TransferFrame

\* the row update after the move: applied, or failed and only logged; the
\* result is "done" either way
TPersistDone(p) ==
    /\ call.op = "transfer" /\ call.procs[p].pc = "persistDone"
    /\ \E applied \in BOOLEAN :
         call' = [call EXCEPT !.row = IF applied
                                        THEN [@ EXCEPT !.transfer_status = "done",
                                                       !.drive_folder_id = TRUE]
                                        ELSE @,
                              !.procs[p].pc = "returned", !.procs[p].result = "done"]
    /\ TransferFrame

executeTransfer(p) ==
    \/ TLoad(p) \/ TGetFile(p) \/ TPersistFolder(p) \/ TSetError(p)
    \/ TMarkInProgress(p) \/ TMove(p) \/ TPersistDone(p)

SpecTransfer == InitTransfer /\ [][\E p \in Calls : executeTransfer(p)]_vars

\* ------------------------------------------------------------------ claims

\* C1: when every submission attempt of a sendWithRetry call fails with a
\* transient fault, the call makes exactly maxRetries + 1 attempts and then
\* raises; no call ever makes more than maxRetries + 1 attempts.
C1_RetryBound ==
    /\ sendAttempts <= maxRetries + 1
    /\ (spc = "threw" /\ ~sawNonTransient) => sendAttempts = maxRetries + 1
    /\ (sendAttempts = maxRetries + 1 /\ sendResult = None /\ spc # "idle")
          => spc = "threw"

C1_Witness ==
    /\ spc = "threw" /\ ~sawNonTransient
    /\ maxRetries = DefaultMaxRetries
    /\ sendAttempts = DefaultMaxRetries + 1
    /\ Len(slept) = DefaultMaxRetries

\* C2: the first attempt of a sendWithRetry call that fails with a
\* non-transient fault ends the call with the terminal error: no backoff sleep
\* and no further attempt follows it, whatever the attempt number.
C2_NonTransientTerminal ==
    sawNonTransient =>
        /\ spc = "threw"
        /\ ~isTransientError(lastErr[1])
        /\ sendAttempts = attempt + 1
        /\ Len(slept) = attempt

C2_Witness ==
    /\ sawNonTransient /\ spc = "threw"
    /\ attempt = 2 /\ maxRetries = DefaultMaxRetries

CountOf(hist, how) == Cardinality({i \in DOMAIN hist : hist[i] = how})

C4_SignatureNullIff ==
    /\ Len(logCommit) = Len(log)
    /\ \A i \in 1..Len(log) :
          /\ (log[i].signature = None) <=> (dryRun \/ logCommit[i].outcome = "failed")
          /\ log[i].signature # None =>
                (logCommit[i].outcome = "confirmed" /\ log[i].signature = logCommit[i].sig)

C4_Witness ==
    /\ ~dryRun /\ Len(log) = 2
    /\ log[1].signature = None /\ logCommit[1].outcome = "failed"
    /\ log[2].signature # None /\ logCommit[2].outcome = "confirmed"

\* C5: once the loop is running no tick failure ends the process: the loop
\* never reaches the fatal exit, a tick that raised is caught, and unless a
\* stop signal arrived the loop then sleeps and starts the next tick.
C5_TickFailureNeverTerminates ==
    [][ /\ (mainPc \in LoopPcs => mainPc' # "fatal")
        /\ (mainPc = "inTick" /\ tpc = "threw" /\ mainPc' # mainPc)
              => mainPc' = "afterTick"
        /\ (mainPc = "afterTick" /\ running /\ mainPc' # mainPc)
              => mainPc' = "sleeping"
        /\ (mainPc = "sleeping" /\ mainPc' # mainPc) => mainPc' = "loopTest"
        /\ (mainPc = "loopTest" /\ running /\ mainPc' # mainPc) => mainPc' = "inTick"
        /\ (mainPc' = "stopped" /\ mainPc # "stopped") => ~running
      ]_vars

C5_Witness ==
    /\ tickNo = 2 /\ tickHist = <<"threw">>
    /\ mainPc = "inTick" /\ tpc = "persist" /\ commitOutcome = "failed"

\* C6: in dry-run mode sendCommit is never called, no block reference is
\* fetched for a transaction, no transaction is built, sendWithRetry never
\* runs, and every record has a null signature.
C6_DryRunNoSubmission ==
    dryRun =>
        /\ tpc \notin {"building", "sending"}
        /\ tx = None
        /\ spc = "idle" /\ sendAttempts = 0 /\ sendResult = None
        /\ commitOutcome \in {"none", "skipped"}
        /\ \A i \in 1..Len(log) : log[i].signature = None

C6_Witness ==
    /\ dryRun /\ Len(log) = 2
    /\ tpc = "returned" /\ commitOutcome = "skipped"

C8_OneTickInFlight ==
    /\ [](Cardinality(inFlight) <= 1)
    /\ [](mainPc # "inTick" => (inFlight = {} /\ tpc = "idle" /\ spc = "idle"))
    /\ [][ /\ tickNo' # tickNo => (mainPc = "loopTest" /\ inFlight = {})
           /\ (mainPc' = "loopTest" /\ mainPc # "loopTest")
                 => mainPc \in {"sleeping", "loadAccounts"}
           /\ (mainPc' = "sleeping" /\ mainPc # "sleeping") => mainPc = "afterTick"
           /\ (mainPc' = "afterTick" /\ mainPc # "afterTick")
                 => (mainPc = "inTick" /\ tpc \in {"returned", "threw"})
         ]_vars

C8_Witness ==
    /\ tickNo = 2 /\ inFlight = {2}
    /\ spc = "backoff" /\ attempt = DefaultMaxRetries - 1

\* C9: a stop signal changes nothing of a tick in flight; that tick runs
\* until it settles before main moves on; the loop stops only between ticks;
\* and no tick starts once the signal has been received.
C9_StopNeverPreempts ==
    [][ /\ ~running => tickNo' = tickNo
        /\ (running /\ ~running') => UNCHANGED <<mainPc, log, tickVars, sendVars>>
        /\ (mainPc = "inTick" /\ mainPc' # "inTick") => tpc \in {"returned", "threw"}
        /\ (mainPc' = "stopped" /\ mainPc # "stopped")
              => (~running /\ mainPc \in {"afterTick", "loopTest"}
                  /\ inFlight = {} /\ tpc = "idle")
      ]_vars

C9_Witness ==
    /\ signalInTick /\ ~running
    /\ tpc = "returned" /\ commitOutcome = "confirmed" /\ appended = 1

IsPrefix(a, b) == Len(a) <= Len(b) /\ SubSeq(b, 1, Len(a)) = a

\* C10: every step leaves the records already in the log unchanged (the old
\* log is a prefix of the new one, which is at most one record longer), and
\* the records are in the order of the ticks that wrote them.
C10_AppendOnlyOrdered ==
    [][ /\ IsPrefix(log, log')
        /\ Len(log') <= Len(log) + 1
        /\ Len(logTick') = Len(log')
        /\ \A i, j \in 1..Len(log') :
              i < j => (logTick'[i] < logTick'[j] /\ log'[i].ts <= log'[j].ts)
      ]_vars

C10_Witness ==
    /\ Len(log) = 2 /\ logTick = <<1, 2>>

\* the account reads that do not yield a parsed token account
BadKinds == {"absent", "raw", "noparsed", "noinfo", "fault"}

ErrorOf(state) ==
    LET i == CHOOSE j \in 1..Len(state) : state[j][1] = "error"
    IN  state[i][3]

HasKey(state, k) == \E j \in 1..Len(state) : state[j][1] = k

\* C11: a snapshot of N accounts of which M are missing, unparseable or fail
\* to be read always resolves; it holds exactly N account states, in the
\* order of the pubkeys, of which exactly the M bad ones are fallback-shaped,
\* each with a non-empty error reason, and the others are parsed-shaped.
C11_BadAccountsDegrade ==
    /\ (tpc = "fetching" /\ snapshot = None) => ENABLED FetchSnapshotOk
    /\ snapshot # None =>
          LET states == snapshot[1].token_states
              bad == {i \in 1..Len(tokenPubkeys) : ledger[i] \in BadKinds}
          IN  /\ Len(states) = Len(tokenPubkeys)
              /\ Cardinality({i \in 1..Len(states) : isTokenStateFallback(states[i])})
                   = Cardinality(bad)
              /\ \A i \in 1..Len(states) :
                    /\ PubkeyOf(states[i]) = tokenPubkeys[i]
                    /\ isTokenStateFallback(states[i]) <=> i \in bad
                    /\ isTokenStateFallback(states[i]) =>
                          /\ ErrorOf(states[i]) # <<>>
                          /\ ~HasKey(states[i], "owner") /\ ~HasKey(states[i], "amount")
                    /\ ~isTokenStateFallback(states[i]) =>
                          /\ ~HasKey(states[i], "error")
                          /\ \A k \in {"owner", "mint", "amount", "decimals", "program"} :
                                HasKey(states[i], k)

C11_Witness ==
    /\ snapshot # None
    /\ Len(tokenPubkeys) = 3
    /\ ledger = <<"fault", "token", "absent">>
    /\ Len(snapshot[1].token_states) = 3
    /\ isTokenStateFallback(snapshot[1].token_states[1])
    /\ ~isTokenStateFallback(snapshot[1].token_states[2])

Digests(e) == <<e.tokens_state_hash, e.docs_hash, e.entropy_seed>>

\* C12: two computeEntropy calls on the same snapshot and id list return the
\* same three digests, also when the second call is handed the very arrays
\* the first call was handed.
C12_Deterministic ==
    call.op = "computeEntropy" /\ call.second # None =>
        /\ Digests(call.second[1]) = Digests(call.first[1])
        /\ call.second[1].doc_count = call.first[1].doc_count
        /\ call.first[1] = computeEntropy(call.args.snapshot, call.args.documentIds)

C12_Witness ==
    /\ call.op = "computeEntropy" /\ call.second # None
    /\ call.args.documentIds = << <<"b">>, <<"a">> >>
    /\ Len(call.args.snapshot.token_states) = 2
    /\ Digests(call.second[1]) = Digests(call.first[1])

\* C13 as stated: every permutation of the account-state array and of the id
\* list yields the same three digests.
C13_Original ==
    call.op = "computeEntropy" /\ call.permuted # None =>
        Digests(call.permuted[1]) = Digests(call.first[1])

DistinctStatesPerPubkey(states) ==
    \A i, j \in 1..Len(states) :
        PubkeyOf(states[i]) = PubkeyOf(states[j]) => states[i] = states[j]

\* C13: for an account-state array in which no two different states share a
\* pubkey, and every id list, every permutation of the array and of the list
\* yields the same three digests.
C13_PermutationInvariant ==
    call.op = "computeEntropy" /\ call.permuted # None
    /\ DistinctStatesPerPubkey(call.args.snapshot.token_states) =>
        Digests(call.permuted[1]) = Digests(call.first[1])

C13_Witness ==
    /\ call.op = "computeEntropy" /\ call.permuted # None
    /\ DistinctStatesPerPubkey(call.args.snapshot.token_states)
    /\ Len(call.args.snapshot.token_states) = 2
    /\ call.permSnapshot.token_states # call.args.snapshot.token_states
    /\ Len(call.args.documentIds) = 2
    /\ call.permIds # call.args.documentIds
    /\ Digests(call.permuted[1]) = Digests(call.first[1])

\* C14: computeEntropy leaves its arguments as they were passed: after the
\* call the caller's snapshot and id array hold what they held before it.
C14_InputsUnmodified ==
    call.op = "computeEntropy" /\ call.first # None =>
        /\ call.snapshot = call.args.snapshot
        /\ call.documentIds = call.args.documentIds

\* C15: for every well-formed payload p (slot and doc_count non-negative,
\* 0 included; block reference and hashes non-empty and free of "|"),
\* parseMemoContent(formatMemoContent(p)) is not null and its six fields
\* equal those of p.
C15_RoundTrip ==
    call.op = "memo" /\ call.pc = "parsed" /\ call.payload # None =>
        /\ call.parsed # None
        /\ LET p == call.payload[1]
               q == call.parsed[1]
           IN  /\ q.slot = p.slot
               /\ q.blockhash = p.blockhash
               /\ q.tokens_state_hash = p.tokens_state_hash
               /\ q.docs_hash = p.docs_hash
               /\ q.doc_count = p.doc_count
               /\ q.entropy_seed = p.entropy_seed

C15_Witness ==
    /\ call.op = "memo" /\ call.pc = "parsed" /\ call.payload # None
    /\ call.payload[1].slot = 0 /\ call.payload[1].doc_count = 15
    /\ call.payload[1].blockhash = <<"seed", "=", "h">>
    /\ call.parsed # None
    /\ call.parsed[1].doc_count = 15 /\ call.parsed[1].slot = 0

HasSegment(memo, key) ==
    \E i \in 2..Len(Split(memo, "|")) : StartsWith(Split(memo, "|")[i], <<key, "=">>)

\* C16: parseMemoContent returns a payload only for a memo that starts with
\* the version tag LAVA_V1 and holds all six segments slot, blockhash,
\* tokens, docs, n and seed; a memo missing any of them yields null.
C16_AllSegmentsRequired ==
    call.op = "memo" /\ call.pc = "parsed" /\ call.parsed # None =>
        /\ Split(call.memo[1], "|")[1] = <<"LAVA_V1">>
        /\ \A i \in 1..6 : HasSegment(call.memo[1], SegmentKeys[i])

\* the memo text the transaction carries, if any
CarriedMemo == IF Falsy(call.logMemo) THEN call.ixData ELSE call.logMemo

FailingChecks(q) ==
    {c \in {"tokens_state_hash", "docs_hash", "entropy_seed", "slot", "blockhash"} :
        CASE c = "tokens_state_hash" -> ~Hex64(q.tokens_state_hash)
          [] c = "docs_hash" -> ~Hex64(q.docs_hash)
          [] c = "entropy_seed" -> ~Hex64(q.entropy_seed)
          [] c = "slot" -> q.slot <= 0
          [] OTHER -> StrLength(q.blockhash) < 32}

\* C18: when the verifier has validated a parsed payload, the failures it
\* has reported are exactly the checks that fail on that payload, each
\* reported once, and it exits 1 whenever that set is not empty.
C18_EveryFailureReported ==
    call.op = "verify" /\ call.pc = "exited" /\ call.parsed # None =>
        /\ {call.reported[i] : i \in 1..Len(call.reported)} = FailingChecks(call.parsed[1])
        /\ Len(call.reported) = Cardinality(FailingChecks(call.parsed[1]))
        /\ call.reported # <<>> => call.exit = Some(1)

C18_Witness ==
    /\ call.op = "verify" /\ call.pc = "exited" /\ call.parsed # None
    /\ Len(call.reported) = 5
    /\ call.exit = Some(1)

\* the raw ids of a list and its joined forms
RawIdStrings(ids) ==
    {ids[i] : i \in 1..Len(ids)} \cup {JoinStr(ids, "|"), JoinStr(ArraySort(ids), "|")}

\* the text fields of a tick's payload, memo and record
TextFields(out) ==
    {out.payload.blockhash, out.payload.tokens_state_hash, out.payload.docs_hash,
     out.payload.entropy_seed,
     out.record.blockhash, out.record.tokens_state_hash, out.record.docs_hash,
     out.record.entropy_seed}
    \cup {out.record.signature[i] : i \in 1..Len(out.record.signature)}
    \cup {LET part == Split(out.memo, "|")[i]
          IN  IF Len(part) >= 2 /\ part[2] = "=" THEN SubSeq(part, 3, Len(part)) ELSE part :
             i \in 1..Len(Split(out.memo, "|"))}

\* C19: two ticks that differ only in their id lists, whose docs_hash and
\* doc_count are equal, build the same payload, the same memo and the same
\* record; and no text field of a payload, memo or record is a raw id or the
\* joined id string of the tick.
C19_IdsOnlyThroughHash ==
    call.op = "ticks" /\ call.pc = "both" =>
        LET a == call.outA[1]
            b == call.outB[1]
        IN  /\ (a.payload.docs_hash = b.payload.docs_hash
                 /\ a.payload.doc_count = b.payload.doc_count) => a = b
            /\ TextFields(a) \cap RawIdStrings(call.idsA) = {}
            /\ TextFields(b) \cap RawIdStrings(call.idsB) = {}

C19_Witness ==
    /\ call.op = "ticks" /\ call.pc = "both"
    /\ call.idsA = << <<"a", "|", "b">>, <<"b">> >>
    /\ call.idsB = << <<"b", "|", "b">>, <<"a">> >>
    /\ call.outA = call.outB
    /\ call.outA[1].payload.doc_count = 2

StartupOrder == <<"checkInterval", "loadKeypair", "getBalance", "validate", "loadAccounts",
                  "loopTest">>

StartupRank(pc) == CHOOSE i \in 1..Len(StartupOrder) : StartupOrder[i] = pc

\* C20: a startup step that fails ends the process before the tick loop:
\* an interval that is NaN or below 1000 never gets past the interval check;
\* the steps run in order and each leads to the next step or to the fatal
\* exit; the loop is entered only from the last step; and at the fatal exit,
\* and ever after, no tick has run, no transaction has been built or
\* submitted and the commit log is empty.
C20_StartupFailureAborts ==
    /\ []((intervalMs = NaN \/ intervalMs < MinIntervalMs)
             => mainPc \in {"checkInterval", "fatal"})
    /\ [](mainPc \in ({StartupOrder[i] : i \in 1..5} \cup {"fatal"})
             => /\ tickNo = 0 /\ tickHist = <<>> /\ tpc = "idle"
                /\ tx = None /\ spc = "idle" /\ sendAttempts = 0
                /\ log = <<>> /\ ~running)
    /\ [][/\ mainPc = "fatal" => mainPc' = "fatal"
          /\ (mainPc \in {StartupOrder[i] : i \in 1..5} /\ mainPc' # mainPc)
               => (mainPc' = "fatal" \/ mainPc' = StartupOrder[StartupRank(mainPc) + 1])
          /\ tickNo' # tickNo => mainPc = "loopTest"]_vars

C20_Witness ==
    /\ mainPc = "fatal"
    /\ intervalMs = DefaultIntervalMs
    /\ tickNo = 0 /\ log = <<>>

\* the stage a tick may move to from each stage
StageSuccessors(stage) ==
    CASE stage = "idle" -> {"fetching"}
      [] stage = "fetching" -> {"commit", "threw"}
      [] stage = "commit" -> {"persist", "building"}
      [] stage = "building" -> {"sending", "persist"}
      [] stage = "sending" -> {"persist"}
      [] stage = "persist" -> {"returned", "threw"}
      [] OTHER -> {"idle"}

\* C21: within a tick the stages run in the order fetch, derive, commit or
\* skip, persist: the derivation happens only when both the id fetch and the
\* snapshot fetch have completed; the transaction carries the memo of that
\* tick's snapshot and derived hashes; a record is appended only in the
\* persist stage, after the commit was skipped, returned or failed, and it
\* holds that tick's hashes; and the orchestrator stops only between ticks.
C21_StagesInOrder ==
    [][/\ tpc' # tpc => tpc' \in StageSuccessors(tpc)
       /\ entropy' # entropy /\ entropy' # None =>
             /\ tpc = "fetching" /\ docResult # None /\ snapshot # None
             /\ Digests(entropy'[1])
                  = Digests(computeEntropy(snapshot[1], docResult[1].ids))
       /\ tx' # tx /\ tx' # None =>
             /\ tpc = "building" /\ entropy # None
             /\ tx'[1].memo = formatMemoContent(PayloadOf(snapshot[1], entropy[1]))
       /\ log' # log =>
             /\ tpc = "persist" /\ spc = "idle"
             /\ commitOutcome \in {"skipped", "confirmed", "failed"}
             /\ log' = Append(log, RecordOf(ts[1], snapshot[1], entropy[1], signature))
       /\ mainPc' = "stopped" /\ mainPc # "stopped" =>
             /\ mainPc \in {"loopTest", "afterTick"}
             /\ tpc = "idle" /\ inFlight = {}]_vars

C21_Witness ==
    /\ tpc = "returned"
    /\ commitOutcome = "confirmed"
    /\ Len(log) = 2
    /\ log[2].signature # None
    /\ log[2].docs_hash = entropy[1].docs_hash

\* C22: once a stop signal has been received the orchestrator starts no
\* further tick and, the tick in flight running to its end and the sleep
\* elapsing, it reaches its stopped state.
C22_StopsAfterSignal ==
    /\ [][(~running /\ mainPc \in LoopPcs) => tickNo' = tickNo]_vars
    /\ (~running /\ mainPc \in LoopPcs) ~> (mainPc = "stopped")

C22_Witness ==
    /\ mainPc = "stopped" /\ ~running
    /\ tickNo = 1 /\ tickHist = <<"returned">>
    /\ Len(log) = 1

\* ---------------------------------------------------------------------
\* C23: parseMemoContent matches fields by key: the parse of a well-formed
\* memo whose six segments come in any order is the parse of the writer's
\* order; formatMemoContent emits slot, blockhash, tokens, docs, n, seed.
C23_KeyMatchedParse ==
    /\ (call.op = "memo" /\ call.pc = "parsed" /\ call.canon # None) =>
            /\ call.parsed # None
            /\ call.parsed = parseMemoContent(call.canon[1])
    /\ (call.op = "memo" /\ call.payload # None /\ call.memo # None) =>
            LET parts == Split(call.memo[1], "|")
            IN  /\ Len(parts) = 7 /\ parts[1] = <<"LAVA_V1">>
                /\ \A i \in 1..6 : parts[i + 1][1] = SegmentKeys[i]

C23_Witness ==
    /\ call.op = "memo" /\ call.pc = "parsed" /\ call.canon # None
    /\ call.memo # call.canon
    /\ Split(call.memo[1], "|")[2][1] = "seed"
    /\ call.parsed # None /\ call.parsed[1].slot = 120

\* ---------------------------------------------------------------------
\* C24: a verifier run whose transaction lookup raised or found nothing, or
\* whose transaction carries an execution error, goes no further than the
\* status stage: it exits with code 1 and no memo was extracted, parsed
\* or validated.
C24_StopsAtFailedLookup ==
    (call.op = "verify" /\ call.sig /\ (call.rpc # "found" \/ call.txErr)) =>
        /\ call.pc \in {"args", "fetch", "status", "exited"}
        /\ call.rpc # "found" => call.pc # "status"
        /\ call.memoText = None /\ call.parsed = None
        /\ call.issues = <<>> /\ call.reported = <<>>
        /\ call.pc = "exited" => call.exit = Some(1)

C24_Witness ==
    /\ call.op = "verify" /\ call.pc = "exited" /\ call.exit = Some(1)
    /\ call.sig /\ call.rpc = "found" /\ call.txErr
    /\ call.memoIx /\ call.logMemo = Some(GoodMemo)
    /\ call.memoText = None /\ call.parsed = None

\* ---------------------------------------------------------------------
\* TOKEN_ACCOUNTS is set to something other than blanks
OverrideGiven(c) == c.env # None /\ \E i \in 1..Len(c.env[1]) : c.env[1][i] # " "

\* the store tier failed or returned no usable row
StoreUnusable(c) == ~c.store.ok \/ StorePubkeys(c.store.rows) = <<>>

\* the file tier is missing or malformed
FileUnusable(c) ==
    \/ c.file.kind # "array"
    \/ \E i \in 1..Len(c.file.entries) : c.file.entries[i] = None

TiersExhausted(c) == ~OverrideGiven(c) /\ StoreUnusable(c) /\ FileUnusable(c)

\* a later tier is consulted only after every earlier one was absent,
\* failed or empty, in the order override, store, file
TiersInPriority(c) ==
    /\ c.consulted \in {<<>>, <<"override">>, <<"store">>, <<"store", "file">>}
    /\ (\E i \in 1..Len(c.consulted) : c.consulted[i] = "store") => ~OverrideGiven(c)
    /\ (\E i \in 1..Len(c.consulted) : c.consulted[i] = "file") =>
            ~OverrideGiven(c) /\ StoreUnusable(c)

\* C25 as stated: tiers are consulted in strict priority, and an error is
\* raised only if all three tiers are exhausted or the resulting list is
\* empty.
C25_Original ==
    call.op = "load" =>
        /\ TiersInPriority(call)
        /\ call.pc = "threw" =>
              TiersExhausted(call) \/ (call.error = "expected at least 1" /\ call.rawKeys = <<>>)

\* C25 amended: tiers are consulted in strict priority, and an error is
\* raised only if all three tiers are exhausted, the resulting list is
\* empty, or a key of the resulting list is not a valid public key; a call
\* that returns yields the keys of the first usable tier.
C25_TierPriority ==
    call.op = "load" =>
        /\ TiersInPriority(call)
        /\ call.pc = "threw" =>
              \/ TiersExhausted(call)
              \/ call.error = "expected at least 1" /\ call.rawKeys = <<>>
              \/ /\ call.error = "invalid public key"
                 /\ \E i \in 1..Len(call.rawKeys) : ~IsPublicKey(call.rawKeys[i])
        /\ call.pc = "returned" =>
              /\ call.result = Some(call.rawKeys) /\ call.rawKeys # <<>>
              /\ call.rawKeys =
                    IF OverrideGiven(call) THEN EnvKeys(call.env[1])
                    ELSE IF ~StoreUnusable(call) THEN StorePubkeys(call.store.rows)
                    ELSE [i \in 1..Len(call.file.entries) |-> Trim(call.file.entries[i][1])]

C25_Witness ==
    /\ call.op = "load" /\ call.pc = "returned"
    /\ call.env = Some(<<" ">>) /\ ~call.store.ok
    /\ call.consulted = <<"store", "file">>
    /\ call.result = Some(<< <<"A">> >>)

\* ---------------------------------------------------------------------
\* C26: within one sendCommit call the block reference is fetched once,
\* after the snapshot and before any submission; every submission, first
\* or retry, carries the transaction built on that reference; when the
\* fetch fails the commit stage ends as failed with no submission and the
\* tick does not come back to it.
C26_OneBlockReference ==
    [][ /\ (tpc # "building" /\ tpc' = "building") =>
              /\ tpc = "commit" /\ snapshot # None
              /\ tx = None /\ sendAttempts = 0
        /\ (tpc = "building" /\ tpc' # "building") =>
              \/ /\ tpc' = "sending" /\ spc' = "attempt" /\ sendAttempts' = 0
                 /\ tx' = Some([recentBlockhash |-> BlockhashAt(chainSlot),
                                memo |-> formatMemoContent(CommitPayload)])
              \/ /\ tpc' = "persist" /\ commitOutcome' = "failed"
                 /\ tx' = None /\ sendAttempts' = 0 /\ signature' = None
        /\ tx' # tx => (tpc = "building" /\ tpc' = "sending") \/ tx' = None
        /\ sendAttempts' = sendAttempts + 1 =>
              /\ tpc = "sending" /\ tx # None /\ tx' = tx
              /\ tx[1].recentBlockhash = BlockhashAt(chainSlot)
        /\ tpc = "persist" => tpc' \notin {"commit", "building", "sending"}
      ]_vars

C26_Witness ==
    /\ tpc = "sending" /\ spc = "returned"
    /\ sendAttempts = 3 /\ Len(slept) = 2
    /\ tx # None /\ tx[1].recentBlockhash = BlockhashAt(chainSlot)
    /\ snapshot # None /\ chainSlot = snapshot[1].slot + 1
    /\ confirmedSig = Some(SignatureOf(tx[1]))

DifferAsMultisets(a, b) ==
    \E x \in {a[i] : i \in DOMAIN a} \cup {b[i] : i \in DOMAIN b} : CountOf(a, x) # CountOf(b, x)

\* C28 as stated: two lists of delimiter-free ids that differ as multisets
\* (the empty list and the list of one empty id among them) get different
\* docs_hash values.
C28_CanonicalInjective ==
    (call.op = "docs" /\ call.pc = "hashed" /\ DifferAsMultisets(call.idsA, call.idsB)) =>
        call.outA[1].docs_hash # call.outB[1].docs_hash

\* ---------------------------------------------------------------------
\* C29 as stated: of two executeTransfer calls on one document that run at
\* the same time (each loaded the row before the other returned), at most
\* one calls moveFile, and a call that returned in_progress has not moved
\* the file.
C29_NoDuplicateMove ==
    call.op = "transfer" =>
        /\ (\A p \in Calls : call.procs[p].concurrent) =>
              Cardinality({p \in Calls : call.procs[p].moved}) <= 1
        /\ \A p \in Calls : call.procs[p].result = "in_progress" => ~call.procs[p].moved

\* C30 as stated: once a call whose in_progress write was applied has
\* returned, with no other call having started, the stored status is done
\* or error and equals the returned status.
C30_NeverStuckInProgress ==
    call.op = "transfer" =>
        \A p \in Calls :
            (/\ call.procs[p].marked /\ call.procs[p].pc = "returned"
             /\ \A q \in Calls \ {p} : call.procs[q].pc = "load") =>
                /\ call.row.transfer_status \in {"done", "error"}
                /\ call.row.transfer_status = call.procs[p].result

====
